---- MODULE Spec2Model ----
(***************************************************************************)
(* Model of addblobservice.py: the keyword scoring and ranking pipeline     *)
(* process_resume_data = fetch_blob_urls ; download_files ; score ; rank.   *)
(*                                                                         *)
(* Python values: a str is a sequence of characters, a list is a sequence,  *)
(* a tuple (file_name, x) is <<file_name, x>>.  A value that may be None is *)
(* wrapped: None or Some(v).  A score is the exact quotient <<num, den>>.   *)
(***************************************************************************)
EXTENDS Integers, Sequences, FiniteSets, TLC

VARIABLES
    keywords,        \* argument of process_resume_data / calculate_keyword_existence
    required_count,  \* argument of process_resume_data
    pc,              \* position inside process_resume_data
    listing_status,  \* what the listing endpoint did: "pending", "ok", "status", "transport", "malformed"
    urls,            \* test_resume_data_url: None or Some(list of urls)
    i,               \* index of the next url of the loop of download_files
    resume_data,     \* resume_data / test_resume_data: None or Some(list of (filename, text))
    log,             \* per listed position reached by the loop, what happened to it
    scored,          \* test_keyword_existence as built by the comprehension, before the sort
    result,          \* the returned list
    error,           \* the exception that left process_resume_data, "" if none
    text,            \* argument of calculate_keyword_existence (scorer specification)
    keyword_count,   \* its local keyword_count
    existence        \* its return value

vars == <<keywords, required_count, pc, listing_status, urls, i, resume_data, log,
          scored, result, error, text, keyword_count, existence>>

pipeline_vars == <<required_count, pc, listing_status, urls, i, resume_data, log,
                   scored, result, error>>

scorer_vars == <<text, keyword_count, existence>>

----------------------------------------------------------------------------
(* Bounds *)

MaxDocs == 3        \* longest listing
MaxTextLen == 2     \* longest text handed to the scorer specification
MaxKwLen == 1       \* longest keyword of the scorer specification
MaxKeywords == 2    \* longest keyword list of the scorer specification

----------------------------------------------------------------------------
(* Python values *)

None == [none |-> TRUE]
Some(v) == [val |-> v]

Alphabet == {"a", "A", "b"}

StrsUpTo(n) == UNION {[1..k -> Alphabet] : k \in 0..n}

ListsUpTo(S, n) == UNION {[1..k -> S] : k \in 0..n}

Range(s) == {s[k] : k \in DOMAIN s}

Reverse(s) == [k \in 1..Len(s) |-> s[Len(s) + 1 - k]]

----------------------------------------------------------------------------
(* calculate_keyword_existence *)

\* str.lower() on one character of Alphabet
LowerChar(c) == IF c = "A" THEN "a" ELSE c

\* str.lower()
Lower(s) == [k \in 1..Len(s) |-> LowerChar(s[k])]

\* sub matches s at position p
MatchAt(s, sub, p) ==
    /\ p + Len(sub) - 1 <= Len(s)
    /\ \A j \in 1..Len(sub) : s[p + j - 1] = sub[j]

RECURSIVE CountFrom(_, _, _)
CountFrom(s, sub, p) ==
    IF p + Len(sub) - 1 > Len(s) THEN 0
    ELSE IF MatchAt(s, sub, p) THEN 1 + CountFrom(s, sub, p + Len(sub))
    ELSE CountFrom(s, sub, p + 1)

\* str.count(sub): non-overlapping occurrences; the empty string occurs len(s)+1 times
Count(s, sub) == IF sub = <<>> THEN Len(s) + 1 ELSE CountFrom(s, sub, 1)

\* mutant of KeywordHits: the keyword is not lower-cased
KeywordHitsNoFold(lowered, keyword) == Count(lowered, keyword)

\* text.count(keyword.lower()), text already lower-cased (line 70)
KeywordHits(lowered, keyword) == Count(lowered, Lower(keyword))

RECURSIVE SumHits(_, _)
SumHits(lowered, kws) ==
    IF kws = <<>> THEN 0
    ELSE KeywordHits(lowered, Head(kws)) + SumHits(lowered, Tail(kws))

\* keyword_count of lines 69-70
KeywordCount(t, kws) == SumHits(Lower(t), kws)

\* mutant of Existence: floor division instead of true division
ExistenceFloorDiv(kc, total) ==
    IF kc > 0 THEN <<kc \div (kc + total), 1>> ELSE <<0, 1>>

\* keyword_count / (keyword_count + total_keywords) if keyword_count > 0 else 0 (line 72)
Existence(kc, total) == IF kc > 0 THEN <<kc, kc + total>> ELSE <<0, 1>>

\* calculate_keyword_existence(text, keywords) for a text that is a str
calculate_keyword_existence(t, kws) == Existence(KeywordCount(t, kws), Len(kws))

\* comparison of two quotients with positive denominators
ScoreLess(x, y) == x[1] * y[2] < y[1] * x[2]
ScoreEq(x, y) == x[1] * y[2] = y[1] * x[2]

----------------------------------------------------------------------------
(* Scorer specification: calculate_keyword_existence applied to bounded inputs *)

ScorerKeywordLists == ListsUpTo(StrsUpTo(MaxKwLen), MaxKeywords)

InitScorer ==
    /\ keywords \in ScorerKeywordLists
    /\ text = <<>>
    /\ keyword_count = KeywordCount(<<>>, keywords)
    /\ existence = calculate_keyword_existence(<<>>, keywords)
    /\ required_count = 0
    /\ pc = "scorer"
    /\ listing_status = "pending"
    /\ urls = None
    /\ i = 1
    /\ resume_data = None
    /\ log = <<>>
    /\ scored = <<>>
    /\ result = <<>>
    /\ error = ""

\* one call calculate_keyword_existence(t, keywords)
CallScorer ==
    \E t \in StrsUpTo(MaxTextLen) :
        /\ text' = t
        /\ keyword_count' = KeywordCount(t, keywords)
        /\ existence' = calculate_keyword_existence(t, keywords)
        /\ UNCHANGED <<keywords, pipeline_vars>>

NextScorer == CallScorer

SpecScorer == InitScorer /\ [][NextScorer]_vars

----------------------------------------------------------------------------
(* The documents behind the listing *)

\* A url is the sequence of its '/'-separated segments, a segment a sequence
\* of tokens, so that the last token of a file name is its extension.
UrlOf(name) == <<<<"store">>, <<"resumes">>, name>>

Urls == {UrlOf(<<"a", ".pdf">>), UrlOf(<<"b", ".docx">>), UrlOf(<<"c", ".txt">>)}

Listings == ListsUpTo(Urls, MaxDocs)

\* url.split('/')[-1] (line 123)
Filename(url) == url[Len(url)]

\* filename.endswith(suffix) (lines 129, 132)
EndsWith(name, suffix) == name # <<>> /\ name[Len(name)] = suffix

\* the bytes of a PDF: unreadable, or a sequence of page texts
PdfFiles ==
    { [readable |-> FALSE, pages |-> <<>>],
      [readable |-> TRUE, pages |-> <<>>],
      [readable |-> TRUE, pages |-> << <<" ">>, <<>> >>],
      [readable |-> TRUE, pages |-> << <<"A">>, <<"b">> >>],
      [readable |-> TRUE, pages |-> << <<"a", "a">> >>],
      [readable |-> TRUE, pages |-> << <<"b">> >>] }

\* the bytes of a DOCX: unreadable, or a sequence of paragraph texts
DocxFiles ==
    { [readable |-> FALSE, paragraphs |-> <<>>],
      [readable |-> TRUE, paragraphs |-> << <<"A">>, <<"b">> >>],
      [readable |-> TRUE, paragraphs |-> << <<"a", "a">> >>],
      [readable |-> TRUE, paragraphs |-> << <<"b">> >>] }

PipelineKeywordLists == { << <<"a">> >>, << <<"A">>, <<"b">> >> }

RequiredCounts == (0 - 1)..MaxDocs

RECURSIVE Concat(_)
Concat(parts) == IF parts = <<>> THEN <<>> ELSE Head(parts) \o Concat(Tail(parts))

RECURSIVE LStrip(_)
LStrip(s) == IF s # <<>> /\ Head(s) = " " THEN LStrip(Tail(s)) ELSE s

\* str.strip()
Strip(s) == Reverse(LStrip(Reverse(LStrip(s))))

\* extract_text_from_pdf: None for an unreadable file (except, lines 38-40)
\* and for content that is empty after strip() (lines 33-35)
extract_text_from_pdf(file) ==
    IF ~ file.readable THEN None
    ELSE IF Strip(Concat(file.pages)) = <<>> THEN None
    ELSE Some(Concat(file.pages))

\* what the log records for a PDF
PdfTag(file) ==
    IF ~ file.readable THEN "malformed"
    ELSE IF extract_text_from_pdf(file) = None THEN "blank"
    ELSE "text"

\* extract_text_from_docx of a readable file: the paragraphs, concatenated (lines 52-56)
extract_text_from_docx(file) == Concat(file.paragraphs)

----------------------------------------------------------------------------
(* Ranking *)

Min(x, y) == IF x <= y THEN x ELSE y
Max(x, y) == IF x >= y THEN x ELSE y

\* insert e into l, sorted ascending by score, after the entries that are not larger
RECURSIVE InsertAscending(_, _)
InsertAscending(e, l) ==
    IF l = <<>> THEN <<e>>
    ELSE IF ScoreLess(e[2], Head(l)[2]) THEN <<e>> \o l
    ELSE <<Head(l)>> \o InsertAscending(e, Tail(l))

\* a stable ascending sort by x[1] of the source, the score
RECURSIVE StableSortAscending(_)
StableSortAscending(l) ==
    IF l = <<>> THEN <<>>
    ELSE InsertAscending(l[Len(l)], StableSortAscending(SubSeq(l, 1, Len(l) - 1)))

\* mutant of SortDescending: an ascending sort, reversed afterwards
SortAscendingThenReverse(l) == Reverse(StableSortAscending(l))

\* list.sort(key=lambda x: x[1], reverse=True) (line 163): the list is
\* reversed, sorted stably ascending and reversed again
SortDescending(l) == Reverse(StableSortAscending(Reverse(l)))

\* mutant of Slice: one entry too many
SliceOneMore(l, n) == SubSeq(l, 1, Min(n + 1, Len(l)))

\* l[:n] (line 166); a negative n counts from the end
Slice(l, n) ==
    IF n >= 0 THEN SubSeq(l, 1, Min(n, Len(l)))
    ELSE SubSeq(l, 1, Max(Len(l) + n, 0))

----------------------------------------------------------------------------
(* process_resume_data *)

Init ==
    /\ keywords \in PipelineKeywordLists
    /\ required_count \in RequiredCounts
    /\ pc = "fetch_blob_urls"
    /\ listing_status = "pending"
    /\ urls = None
    /\ i = 1
    /\ resume_data = None
    /\ log = <<>>
    /\ scored = <<>>
    /\ result = <<>>
    /\ error = ""
    /\ text = <<>>
    /\ keyword_count = 0
    /\ existence = <<0, 1>>

\* process_resume_data stops with an exception
Raise(e) ==
    /\ pc' = "raised"
    /\ error' = e

\* fetch_blob_urls (line 156, lines 85-101)
FetchBlobUrls ==
    /\ pc = "fetch_blob_urls"
    /\ \E outcome \in {"ok", "status", "transport", "malformed"} :
          /\ listing_status' = outcome
          /\ \/ /\ outcome = "ok"
                /\ \E l \in Listings : urls' = Some(l)
                /\ pc' = "download_files"
                /\ error' = error
             \/ /\ outcome \in {"status", "transport"}
                /\ urls' = None
                /\ pc' = "download_files"
                /\ error' = error
             \/ /\ outcome = "malformed"
                /\ urls' = urls
                /\ Raise("ParseError")
    /\ UNCHANGED <<keywords, required_count, i, resume_data, log, scored, result, scorer_vars>>

\* mutant of ReturnWithoutListing: the empty resume_data is returned
ReturnEmptyWithoutListing(data) == Some(data)

\* the bare return of line 115, with resume_data = data
ReturnWithoutListing(data) == None

\* download_files up to its loop (line 157, lines 113-117)
EnterDownloadFiles ==
    /\ pc = "download_files"
    /\ IF urls = None
       THEN /\ resume_data' = ReturnWithoutListing(<<>>)
            /\ pc' = "score"
       ELSE /\ resume_data' = Some(<<>>)
            /\ pc' = "loop"
    /\ i' = 1
    /\ UNCHANGED <<keywords, required_count, listing_status, urls, log, scored, result,
                   error, scorer_vars>>

\* resume_data.append((filename, t))
Appended(filename, t) == Some(Append(resume_data.val, <<filename, t>>))

\* one iteration of the loop of download_files (lines 118-139)
DownloadFile ==
    /\ pc = "loop"
    /\ i <= Len(urls.val)
    /\ LET filename == Filename(urls.val[i]) IN
       \/ \* requests.get raises: caught at line 138, outside the loop
          /\ log' = Append(log, "transport")
          /\ pc' = "score"
          /\ UNCHANGED <<i, resume_data, error>>
       \/ \* status_code # 200 (line 137)
          /\ log' = Append(log, "status")
          /\ i' = i + 1
          /\ UNCHANGED <<pc, resume_data, error>>
       \/ /\ EndsWith(filename, ".pdf")
          /\ \E file \in PdfFiles :
                /\ resume_data' = Appended(filename, extract_text_from_pdf(file))
                /\ log' = Append(log, PdfTag(file))
          /\ i' = i + 1
          /\ UNCHANGED <<pc, error>>
       \/ /\ ~ EndsWith(filename, ".pdf")
          /\ EndsWith(filename, ".docx")
          /\ \E file \in DocxFiles :
                IF file.readable
                THEN /\ resume_data' = Appended(filename, Some(extract_text_from_docx(file)))
                     /\ log' = Append(log, "text")
                     /\ i' = i + 1
                     /\ UNCHANGED <<pc, error>>
                ELSE \* Document() raises, nothing catches it
                     /\ log' = Append(log, "malformed")
                     /\ Raise("DocxError")
                     /\ UNCHANGED <<i, resume_data>>
       \/ /\ ~ EndsWith(filename, ".pdf")
          /\ ~ EndsWith(filename, ".docx")
          /\ log' = Append(log, "unsupported")
          /\ i' = i + 1
          /\ UNCHANGED <<pc, resume_data, error>>
    /\ UNCHANGED <<keywords, required_count, listing_status, urls, scored, result, scorer_vars>>

\* the loop is exhausted: return resume_data (line 140)
ReturnResumeData ==
    /\ pc = "loop"
    /\ i > Len(urls.val)
    /\ pc' = "score"
    /\ UNCHANGED <<keywords, required_count, listing_status, urls, i, resume_data, log,
                   scored, result, error, scorer_vars>>

\* the comprehension of line 160
Score ==
    /\ pc = "score"
    /\ IF resume_data = None
       THEN \* iterating over None
            /\ Raise("TypeError")
            /\ scored' = scored
       ELSE IF \E k \in DOMAIN resume_data.val : resume_data.val[k][2] = None
       THEN \* None.lower() (line 69)
            /\ Raise("AttributeError")
            /\ scored' = scored
       ELSE /\ scored' = [k \in DOMAIN resume_data.val |->
                            <<resume_data.val[k][1],
                              calculate_keyword_existence(resume_data.val[k][2].val, keywords)>>]
            /\ pc' = "rank"
            /\ error' = error
    /\ UNCHANGED <<keywords, required_count, listing_status, urls, i, resume_data, log,
                   result, scorer_vars>>

\* sort and slice (lines 163-166); scored keeps the order before the sort
Rank ==
    /\ pc = "rank"
    /\ result' = Slice(SortDescending(scored), required_count)
    /\ pc' = "returned"
    /\ UNCHANGED <<keywords, required_count, listing_status, urls, i, resume_data, log,
                   scored, error, scorer_vars>>

Next ==
    \/ FetchBlobUrls
    \/ EnterDownloadFiles
    \/ DownloadFile
    \/ ReturnResumeData
    \/ Score
    \/ Rank

Spec == Init /\ [][Next]_vars

----------------------------------------------------------------------------
(* Properties of the scorer *)

\* keyword k occurs in t as a substring when case is ignored
OccursIgnoringCase(t, k) ==
    \E p \in 1..(Len(t) + 1) :
        /\ p + Len(k) - 1 <= Len(t)
        /\ \A j \in 1..Len(k) : LowerChar(t[p + j - 1]) = LowerChar(k[j])

\* C8: calculate_keyword_existence(T, K) is 0 if and only if no keyword of K
\* occurs, ignoring case, as a substring of T (K may be empty, may hold
\* duplicates and may hold the empty string).
C8_ZeroIffNoKeywordOccurs ==
    pc = "scorer" =>
        (ScoreEq(existence, <<0, 1>>)
            <=> ~ \E n \in DOMAIN keywords : OccursIgnoringCase(text, keywords[n]))

\* a keyword written in upper case is found in a text that holds it in lower case only
C8_Witness ==
    /\ pc = "scorer"
    /\ \E n \in DOMAIN keywords :
          /\ keywords[n] # <<>>
          /\ Count(text, keywords[n]) = 0
          /\ OccursIgnoringCase(text, keywords[n])
    /\ ~ ScoreEq(existence, <<0, 1>>)

\* the score lies in [0, 1) and is exactly 0 for zero hits
C9_Range ==
    pc = "scorer" =>
        /\ 0 <= existence[1]
        /\ existence[2] > 0
        /\ existence[1] < existence[2]
        /\ (keyword_count = 0 <=> existence[1] = 0)

\* between two calls with the same keywords, more hits give a strictly larger score
C9_Step ==
    pc = "scorer" =>
        /\ (keyword_count < keyword_count' => ScoreLess(existence, existence'))
        /\ (keyword_count' < keyword_count => ScoreLess(existence', existence))

----------------------------------------------------------------------------
(* Properties of process_resume_data *)

Terminated == pc \in {"returned", "raised"}

\* download_files has returned a list
DownloadReturned == pc \in {"score", "rank", "returned"} /\ urls # None

Occurrences(l, e) == Cardinality({k \in DOMAIN l : l[k] = e})

IsPrefix(a, b) == Len(a) <= Len(b) /\ a = SubSeq(b, 1, Len(a))

\* the entries of l whose score equals sc, in the order of l
WithScore(l, sc) ==
    LET Same(e) == ScoreEq(e[2], sc) IN SelectSeq(l, Same)

\* C1: a fetch failure for one location (a non-200 status or an exception of
\* the request) does not abort the batch: when download_files returns, every
\* listed location has been fetched, and every fetched supported document has
\* an entry in the data handed to scoring.
C1_FetchFailureDoesNotAbortBatch ==
    DownloadReturned =>
        /\ \A k \in DOMAIN urls.val : k \in DOMAIN log
        /\ Len(resume_data.val) =
              Cardinality({k \in DOMAIN log : log[k] \in {"text", "blank", "malformed"}})

\* C2: a PDF whose text is empty or whitespace-only has no entry in the data
\* that is scored, and calculate_keyword_existence is never applied to None.
C2_BlankPdfNeverScored ==
    /\ error # "AttributeError"
    /\ \A k \in DOMAIN log :
          log[k] = "blank" =>
              <<Filename(urls.val[k]), None>> \notin Range(resume_data.val)

\* C3: when the listing was obtained, a document that cannot be extracted
\* (malformed PDF or DOCX) does not fail the request: process_resume_data
\* returns a ranked sequence.
C3_ExtractionFailureIsolated ==
    (Terminated /\ listing_status = "ok" /\ \E k \in DOMAIN log : log[k] = "malformed")
        => pc = "returned"

\* C4: when the listing cannot be obtained (endpoint unreachable, status other
\* than 200, payload not well-formed), process_resume_data never reaches the
\* ranking step nor returns; it goes on until it stops with an exception.
C4_NoListingIsFatal ==
    listing_status \in {"status", "transport", "malformed"} =>
        /\ pc \in {"download_files", "score", "raised"}
        /\ result = <<>>
        /\ (pc = "raised" => error \in {"TypeError", "ParseError"})
        /\ (pc # "raised" => ENABLED Next)

\* the listing endpoint answered with a status other than 200 and the request failed
C4_Witness ==
    /\ listing_status = "status"
    /\ pc = "raised"
    /\ error = "TypeError"

\* C5: with a negative required_count process_resume_data never returns a sequence.
C5_NegativeCountRejected == required_count < 0 => pc # "returned"

\* C6: for a count >= 0 the result is non-increasing by score, holds only
\* entries of the scored documents, and has length min(count, number of documents).
C6_RankedResultShape ==
    (pc = "returned" /\ required_count >= 0) =>
        /\ \A j, k \in DOMAIN result : j < k => ~ ScoreLess(result[j][2], result[k][2])
        /\ \A e \in Range(result) : Occurrences(result, e) <= Occurrences(scored, e)
        /\ Len(result) = Min(required_count, Len(scored))

\* a result truncated to a positive count, from documents that were not in rank order
C6_Witness ==
    /\ pc = "returned"
    /\ 0 < required_count
    /\ required_count < Len(scored)
    /\ Len(result) = required_count
    /\ \E j, k \in DOMAIN scored : j < k /\ ScoreLess(scored[j][2], scored[k][2])

\* C7: entries of the result with the same score are in the order they had
\* in the input of the sort.
C7_RankingIsStable ==
    pc = "returned" =>
        \A e \in Range(result) : IsPrefix(WithScore(result, e[2]), WithScore(scored, e[2]))

\* two different files with the same score in the result, and the sort moved an entry
C7_Witness ==
    /\ pc = "returned"
    /\ \E j, k \in DOMAIN result :
          /\ j < k
          /\ ScoreEq(result[j][2], result[k][2])
          /\ result[j][1] # result[k][1]
    /\ \E j, k \in DOMAIN scored : j < k /\ ScoreLess(scored[j][2], scored[k][2])

\* the listed positions whose document was fetched and extracted, with file name f
Extracted(f) == {k \in DOMAIN log : log[k] = "text" /\ Filename(urls.val[k]) = f}

\* C10: a file that is neither .pdf nor .docx is skipped without error: with
\* a count of at least the listing length, the result has exactly one entry
\* per fetched and extracted .pdf/.docx document and none for another extension.
C10_OneEntryPerExtractedDocument ==
    (/\ Terminated
     /\ listing_status = "ok"
     /\ required_count >= Len(urls.val)
     /\ \E k \in DOMAIN log : log[k] = "text")
        => /\ pc = "returned"
           /\ \A u \in Urls :
                 Cardinality({k \in DOMAIN result : result[k][1] = Filename(u)})
                    = Cardinality(Extracted(Filename(u)))

====
